---- MODULE Spec2Model ----
(***************************************************************************)
(* A model of capslocktools: capslock-git-diff (compares the capabilities  *)
(* of packages at two git revisions) and compare (compares two published   *)
(* versions of a package with capslock's own comparison mode).             *)
(*                                                                         *)
(* Strings that the code orders (package directories) are sequences of     *)
(* byte values; capabilities are the values of the cpb.Capability          *)
(* enumeration; a call path is a sequence of function names.               *)
(***************************************************************************)
EXTENDS Integers, Sequences, FiniteSets, TLC

(***************************************************************************)
(* Bounds of the model.                                                    *)
(***************************************************************************)
\* Longest capability list handed to diffCapabilityInfoLists in SpecDiff.
MaxLen == 2
\* Longest capability list the analyzer prints in a run of the tools.
MaxOut == 1

(***************************************************************************)
(* Capability records (cpb.CapabilityInfo) and lists of them.              *)
(***************************************************************************)
\* Values of the cpb.Capability enumeration that occur in the model.
Capabilities == {2, 3}
\* Package directories "ab" and "b", as byte sequences.
PackageDirs == {<<97, 98>>, <<98>>}
\* Call paths: sequences of function names.
Paths == {<<"f">>, <<"g", "h">>}

CapabilityInfo == [capability : Capabilities, packageDir : PackageDirs, path : Paths]

\* The capability lists of at most n records.
CapabilityInfoLists(n) == UNION {[1..k -> CapabilityInfo] : k \in 0..n}

(***************************************************************************)
(* mapKey, capabilitiesMap and populateMap.                                *)
(***************************************************************************)
mapKey(ci) == [key |-> ci.packageDir, capability |-> ci.capability]

\* An empty capabilitiesMap: a function with an empty domain.
emptyMap == [k \in {} |-> 0]

\* mapStore when a key that is present keeps its record.
mapStoreKeepingFirst(m, mk, ci) ==
  [k \in DOMAIN m \cup {mk} |-> IF k \in DOMAIN m THEN m[k] ELSE ci]

\* m[mk] = ci of the Go map: adds the key or overwrites its record.
mapStore(m, mk, ci) == [k \in DOMAIN m \cup {mk} |-> IF k = mk THEN ci ELSE m[k]]

\* The loop of populateMap from record i on.
RECURSIVE populateFrom(_, _, _)
populateFrom(cil, i, m) ==
  IF i > Len(cil) THEN m
  ELSE populateFrom(cil, i + 1, mapStore(m, mapKey(cil[i]), cil[i]))

populateMap(cil) == populateFrom(cil, 1, emptyMap)

(***************************************************************************)
(* The order of sort.Slice in diffCapabilityInfoLists.                     *)
(***************************************************************************)
\* Go's < on strings: bytewise lexicographic, a proper prefix is smaller.
RECURSIVE stringLess(_, _)
stringLess(s, t) ==
  IF t = <<>> THEN FALSE
  ELSE IF s = <<>> THEN TRUE
  ELSE IF s[1] # t[1] THEN s[1] < t[1]
  ELSE stringLess(Tail(s), Tail(t))

\* keyLess when the package directories are compared before the capabilities.
keyLessKeyFirst(a, b) ==
  IF a.key # b.key THEN stringLess(a.key, b.key)
  ELSE a.capability < b.capability

\* The less function handed to sort.Slice.
keyLess(a, b) ==
  IF a.capability # b.capability THEN a.capability < b.capability
  ELSE stringLess(a.key, b.key)

\* Inserts k into the sorted sequence s.
RECURSIVE sortInsert(_, _)
sortInsert(k, s) ==
  IF s = <<>> THEN <<k>>
  ELSE IF keyLess(k, s[1]) THEN <<k>> \o s
  ELSE <<s[1]>> \o sortInsert(k, Tail(s))

\* sortSlice when the keys are left in the order of the map iteration.
sortSliceUnsorted(keys) == keys

\* sort.Slice(keys, less): the keys in ascending order of less.
RECURSIVE sortSlice(_)
sortSlice(keys) ==
  IF keys = <<>> THEN <<>>
  ELSE sortInsert(keys[1], sortSlice(Tail(keys)))

(***************************************************************************)
(* diffCapabilityInfoLists.  The standard output is a sequence of print    *)
(* events: a blank line (fmt.Println()) or an entry (the header line and   *)
(* the call path printed by printCallPath).                                *)
(***************************************************************************)
blankLine == [kind |-> "blank"]

entry(side, prefix, key, path) ==
  [kind |-> "entry", side |-> side, prefix |-> prefix,
   key |-> key.key, capability |-> key.capability, path |-> path]

\* gainedStep without the test that the key is absent from the baseline.
gainedStepIgnoringBaseline(st, key, baselineMap, currentMap) ==
  IF key \in DOMAIN currentMap
  THEN [out |-> (IF st.different THEN st.out \o <<blankLine>> ELSE st.out)
                  \o <<entry(">", "> ", key, currentMap[key].path)>>,
        different |-> TRUE]
  ELSE st

\* gainedStep when a key of both maps with two different call paths is
\* reported too.
gainedStepComparingPaths(st, key, baselineMap, currentMap) ==
  IF /\ key \in DOMAIN currentMap
     /\ (key \notin DOMAIN baselineMap
           \/ baselineMap[key].path # currentMap[key].path)
  THEN [out |-> (IF st.different THEN st.out \o <<blankLine>> ELSE st.out)
                  \o <<entry(">", "> ", key, currentMap[key].path)>>,
        different |-> TRUE]
  ELSE st

\* gainedStep when the blank line is printed before every gained entry.
gainedStepAlwaysBlank(st, key, baselineMap, currentMap) ==
  IF key \notin DOMAIN baselineMap /\ key \in DOMAIN currentMap
  THEN [out |-> st.out \o <<blankLine>>
                  \o <<entry(">", "> ", key, currentMap[key].path)>>,
        different |-> TRUE]
  ELSE st

\* What the first if statement of the loop body prints and returns.
gainedStep(st, key, baselineMap, currentMap) ==
  IF key \notin DOMAIN baselineMap /\ key \in DOMAIN currentMap
  THEN [out |-> (IF st.different THEN st.out \o <<blankLine>> ELSE st.out)
                  \o <<entry(">", "> ", key, currentMap[key].path)>>,
        different |-> TRUE]
  ELSE st

\* lostStep without the test that the key is absent from current.
lostStepIgnoringCurrent(st, key, baselineMap, currentMap) ==
  IF key \in DOMAIN baselineMap
  THEN [out |-> (IF st.different THEN st.out \o <<blankLine>> ELSE st.out)
                  \o <<entry("<", "< ", key, baselineMap[key].path)>>,
        different |-> TRUE]
  ELSE st

\* lostStep when a lost entry does not set different.
lostStepWithoutDifferent(st, key, baselineMap, currentMap) ==
  IF key \in DOMAIN baselineMap /\ key \notin DOMAIN currentMap
  THEN [out |-> (IF st.different THEN st.out \o <<blankLine>> ELSE st.out)
                  \o <<entry("<", "< ", key, baselineMap[key].path)>>,
        different |-> st.different]
  ELSE st

\* What the second if statement of the loop body prints and returns.
lostStep(st, key, baselineMap, currentMap) ==
  IF key \in DOMAIN baselineMap /\ key \notin DOMAIN currentMap
  THEN [out |-> (IF st.different THEN st.out \o <<blankLine>> ELSE st.out)
                  \o <<entry("<", "< ", key, baselineMap[key].path)>>,
        different |-> TRUE]
  ELSE st

\* The loop over the sorted keys from position i on.
RECURSIVE diffLoop(_, _, _, _, _)
diffLoop(keys, i, st, baselineMap, currentMap) ==
  IF i > Len(keys) THEN st
  ELSE diffLoop(keys, i + 1,
                lostStep(gainedStep(st, keys[i], baselineMap, currentMap),
                         keys[i], baselineMap, currentMap),
                baselineMap, currentMap)

\* The orders in which a range over a map with key set S may visit its keys.
mapOrders(S) ==
  {s \in [1..Cardinality(S) -> S] : \A i, j \in DOMAIN s : s[i] = s[j] => i = j}

\* The keys of current that the second range loop appends.
currentOnly(baselineMap, currentMap) == DOMAIN currentMap \ DOMAIN baselineMap

\* diffCapabilityInfoLists after the two snapshots are built: the keys are
\* collected in the orders order1 and order2 of the two range loops, sorted,
\* and looped over.
diffSnapshots(baselineMap, currentMap, order1, order2) ==
  LET keys == sortSlice(order1 \o order2)
  IN diffLoop(keys, 1, [out |-> <<>>, different |-> FALSE], baselineMap, currentMap)

\* diffCapabilityInfoLists(baseline, current) when the two range loops visit
\* the keys in the orders order1 and order2: the output and the result.
diffCapabilityInfoLists(baseline, current, order1, order2) ==
  diffSnapshots(populateMap(baseline), populateMap(current), order1, order2)

(***************************************************************************)
(* The state of a run of one of the two tools.                             *)
(***************************************************************************)
VARIABLES
  tool,          \* "gitdiff" (capslock-git-diff) or "compare"
  args,          \* flag.Args()
  tmpEnv,        \* os.Getenv("CAPSLOCKTOOLSTMPDIR"); <<>> is the empty string
  startDir,      \* the working directory the process was started in
  pc,            \* the statement the process is at
  cwd,           \* the working directory of the process
  nTemp,         \* the number of temporary directories created so far
  ops,           \* the external operations performed so far, in order
  exitCode,      \* the exit status of the process, NotExited while it runs
  logged,        \* the errors written by log.Print and log.Fatal
  panicked,      \* the process stopped in panic()
  acq,           \* capslock-git-diff: the AnalyzeAtRevision call in progress
  entryDir,      \* the working directory when that call began
  rev,           \* AnalyzeAtRevision's rev
  pkgname,       \* AnalyzeAtRevision's pkgname
  tmpdir,        \* AnalyzeAtRevision's and MakeWorkspace's tmpdir
  gitdir,        \* AnalyzeAtRevision's gitdir
  prefix,        \* AnalyzeAtRevision's prefix
  wd,            \* the result of os.Getwd(): AnalyzeAtRevision's wd, and
                 \* CreateCapabilitiesFile's dir
  deferred,      \* the deferred function of AnalyzeAtRevision is registered
  err,           \* the err of the function in progress
  cil,           \* the cil result of AnalyzeAtRevision
  cil1,          \* main's cil1: the baseline
  cil2,          \* main's cil2: the current list
  out,           \* what diffCapabilityInfoLists printed
  different,     \* what diffCapabilityInfoLists returned
  ws,            \* compare: the workspace being made (1 or 2)
  filename,      \* compare: the filename of CreateCapabilitiesFile
  fileState,     \* compare: capslock.json is "none", "open" or "closed"
  ranComparison  \* compare: the ranComparison result of ComparePackages

inputs == <<tool, args, tmpEnv, startDir>>
process == <<pc, cwd, nTemp, ops, exitCode, logged, panicked>>
frame == <<acq, entryDir, rev, pkgname, tmpdir, gitdir, prefix, wd, deferred, err, cil>>
lists == <<cil1, cil2, out, different>>
compareVars == <<ws, filename, fileState, ranComparison>>
vars == <<inputs, process, frame, lists, compareVars>>

(***************************************************************************)
(* Directories are sequences of path components.  A path whose first       *)
(* component is "." is relative to the working directory; every other path *)
(* is absolute.                                                            *)
(***************************************************************************)
\* The root of the caller's git repository.
RepoRoot == <<"repo">>
\* The directories a tool may be started in.
StartDirs == {<<"repo">>, <<"repo", "sub">>}
\* os.TempDir().
osTempDir == <<"tmp">>
\* The values of CAPSLOCKTOOLSTMPDIR: unset or empty, an absolute directory,
\* a relative one ("rel"), or "." itself.
TmpEnvs == {<<>>, <<"custom">>, <<".", "rel">>, <<".">>}
\* The directories of the repository's tree, relative to its root.
TreeDirs == {<<>>, <<"sub">>}

isRelative(p) == p # <<>> /\ p[1] = "."

\* The directory the operating system resolves the path p to when the
\* working directory is d.
absPath(d, p) == IF isRelative(p) THEN d \o Tail(p) ELSE p

\* The directory MkdirTemp creates its directories in.
tempBase(dir) == IF dir = <<>> THEN osTempDir ELSE dir
\* The names os.MkdirTemp gives to successive new directories.
tempNames == <<"t1", "t2">>

\* os.MkdirTemp(dir, "") when it creates the n-th directory of the run.
MkdirTemp(dir, n) == tempBase(dir) \o <<tempNames[n]>>

\* filepath.Join and path.Join of two paths.
pathJoin(a, b) == a \o b

\* strings.TrimSuffix(s, "\n") on an output whose lines end in a "\n" token.
TrimSuffix(s) ==
  IF s # <<>> /\ s[Len(s)] = "\n" THEN SubSeq(s, 1, Len(s) - 1) ELSE s

\* What `git rev-parse --git-dir` prints in directory d of the repository.
gitDirOutput(d) ==
  (IF d = RepoRoot THEN <<".git">> ELSE RepoRoot \o <<".git">>) \o <<"\n">>

\* What `git rev-parse --show-prefix` prints in directory d of the repository.
showPrefixOutput(d) == SubSeq(d, Len(RepoRoot) + 1, Len(d)) \o <<"\n">>

(***************************************************************************)
(* Subprocesses and errors.                                                *)
(***************************************************************************)
NotExited == -1
\* The status with which the Go runtime ends a process that panics.
PanicExitCode == 2
\* The status with which log.Fatal ends the process.
FatalExitCode == 1
\* The status capslock-git-diff exits with after an error.
ErrorExitCode == 2
\* The status capslock-git-diff exits with when it found differences.
DifferentExitCode == 1

\* How cmd.Run() may end: the command exits with status 0; it exits with a
\* non-zero status; it is killed by a signal; it could not be started.
runOk == [kind |-> "ok", code |-> 0]
RunResults ==
  {runOk, [kind |-> "exit", code |-> 1], [kind |-> "exit", code |-> 2],
   [kind |-> "signal", code |-> -1], [kind |-> "nostart", code |-> 0]}

\* An error is the chain of its messages (outermost first), whether the chain
\* holds an *exec.ExitError, and the ExitCode() of that error.
noError == [step |-> <<>>, kind |-> "nil", code |-> 0]

\* The error run() returns for a command that ended as r: it wraps an
\* *exec.ExitError when the command ran and did not exit with status 0.
runError(command, r) ==
  [step |-> <<command>>,
   kind |-> IF r.kind \in {"exit", "signal"} THEN "ExitError" ELSE "other",
   code |-> r.code]

\* An error that is no *exec.ExitError, with fmt.Errorf's message.
stepError(msg) == [step |-> <<msg>>, kind |-> "other", code |-> 0]

\* fmt.Errorf(msg + ": %w", e): errors.As still finds what e wraps.
wrapError(msg, e) == [e EXCEPT !.step = <<msg>> \o e.step]

\* The exit status the operating system reports for os.Exit(c).
exitStatus(c) == c % 256

\* How a system call (MkdirTemp, Getwd, Chdir, Create, Close) ended.
sysResult(ok) == IF ok THEN runOk ELSE [kind |-> "fail", code |-> 0]

\* One external operation: what, with which argument, in which directory,
\* in which call of AnalyzeAtRevision (0 outside of it), and how it ended.
op(name, arg, r) ==
  [op |-> name, arg |-> arg, dir |-> cwd, call |-> acq, res |-> r]

opOk(o) == o.res = runOk

\* The directories that exist before the run: those of the repository, the
\* temporary bases, and the relative base under each start directory.
staticDirs ==
  {RepoRoot \o t : t \in TreeDirs} \cup {osTempDir, <<"custom">>}
    \cup {absPath(d, <<".", "rel">>) : d \in StartDirs}

\* The directory d exists: it did before the run, or os.MkdirTemp made it,
\* or git reset --hard checked it out in a clone.
existsDir(d) ==
  \/ d \in staticDirs
  \/ \E i \in DOMAIN ops :
       /\ opOk(ops[i])
       /\ \/ ops[i].op = "mkdirtemp" /\ ops[i].arg = d
          \/ ops[i].op = "git reset --hard"
               /\ d \in {ops[i].dir \o t : t \in TreeDirs}

(***************************************************************************)
(* The inputs of a run.                                                    *)
(***************************************************************************)
\* Revisions: "." is the current state of the repository.
Revisions == {".", "main"}
\* The command lines of capslock-git-diff: two revisions and a package
\* selector, and command lines with one argument less or one more.
GitDiffArgs ==
  {<<r1, r2, "./...">> : r1 \in Revisions, r2 \in Revisions}
    \cup {<<"main", ".">>, <<"main", ".", "./...", "extra">>}
\* The command lines of compare: a package and two versions, and command
\* lines with one argument less or one more.
CompareArgs ==
  {<<"pkg", "v1", "v2">>, <<"pkg", "v1">>, <<"pkg", "v1", "v2", "extra">>}

Init ==
  /\ tool \in {"gitdiff", "compare"}
  /\ args \in (IF tool = "gitdiff" THEN GitDiffArgs ELSE CompareArgs)
  /\ tmpEnv \in TmpEnvs
  /\ startDir \in StartDirs
  /\ pc = "main"
  /\ cwd = startDir
  /\ nTemp = 0
  /\ ops = <<>>
  /\ exitCode = NotExited
  /\ logged = <<>>
  /\ panicked = FALSE
  /\ acq = 0
  /\ entryDir = <<>>
  /\ rev = ""
  /\ pkgname = ""
  /\ tmpdir = <<>>
  /\ gitdir = <<>>
  /\ prefix = <<>>
  /\ wd = <<>>
  /\ deferred = FALSE
  /\ err = noError
  /\ cil = <<>>
  /\ cil1 = <<>>
  /\ cil2 = <<>>
  /\ out = <<>>
  /\ different = FALSE
  /\ ws = 0
  /\ filename = <<>>
  /\ fileState = "none"
  /\ ranComparison = FALSE

(***************************************************************************)
(* capslock-git-diff: AnalyzeAtRevision and callCapslock.                  *)
(***************************************************************************)
\* analyzeReturn when the function has no deferred restoration.
analyzeReturnWithoutDefer(e) ==
  /\ err' = e
  /\ pc' = "A_return"

\* A return statement of AnalyzeAtRevision with the error e: the deferred
\* function runs first when it is registered.
analyzeReturn(e) ==
  /\ err' = e
  /\ pc' = IF deferred THEN "A_defer" ELSE "A_return"

\* AnalyzeEntry without the test for the revision ".".
AnalyzeEntryWithoutSentinel ==
  /\ pc = "A_entry"
  /\ pc' = "A_mkdirtemp"
  /\ UNCHANGED <<inputs, cwd, nTemp, ops, exitCode, logged, panicked, frame,
                 lists, compareVars>>

\* if rev == "." { return callCapslock(rev, pkgname) }
AnalyzeEntry ==
  /\ pc = "A_entry"
  /\ pc' = IF rev = "." THEN "A_capslock" ELSE "A_mkdirtemp"
  /\ UNCHANGED <<inputs, cwd, nTemp, ops, exitCode, logged, panicked, frame,
                 lists, compareVars>>

\* tmpdir, err := os.MkdirTemp(os.Getenv("CAPSLOCKTOOLSTMPDIR"), "")
AnalyzeMkdirTemp ==
  /\ pc = "A_mkdirtemp"
  /\ \E ok \in BOOLEAN :
       /\ ok => existsDir(absPath(cwd, tempBase(tmpEnv)))
       /\ ops' = Append(ops, op("mkdirtemp",
                             IF ok THEN absPath(cwd, MkdirTemp(tmpEnv, nTemp + 1))
                             ELSE <<>>,
                             sysResult(ok)))
       /\ IF ok
          THEN /\ nTemp' = nTemp + 1
               /\ tmpdir' = MkdirTemp(tmpEnv, nTemp + 1)
               /\ pc' = "A_gitdir"
               /\ err' = noError
          ELSE /\ analyzeReturn(stepError("creating temporary directory"))
               /\ UNCHANGED <<nTemp, tmpdir>>
  /\ UNCHANGED <<inputs, cwd, exitCode, logged, panicked, acq, entryDir, rev, pkgname,
                 gitdir, prefix, wd, deferred, cil, lists, compareVars>>

\* run(&b, "git", "rev-parse", "--git-dir") and the TrimSuffix of its output
AnalyzeGitDir ==
  /\ pc = "A_gitdir"
  /\ \E r \in RunResults :
       /\ ops' = Append(ops, op("git rev-parse --git-dir", <<>>, r))
       /\ IF r = runOk
          THEN /\ gitdir' = TrimSuffix(gitDirOutput(cwd))
               /\ pc' = "A_prefix"
               /\ err' = noError
          ELSE /\ analyzeReturn(runError("git rev-parse --git-dir", r))
               /\ UNCHANGED gitdir
  /\ UNCHANGED <<inputs, cwd, nTemp, exitCode, logged, panicked, acq, entryDir,
                 rev, pkgname, tmpdir, prefix, wd, deferred, cil, lists, compareVars>>

\* run(&b, "git", "rev-parse", "--show-prefix") and the TrimSuffix of its output
AnalyzePrefix ==
  /\ pc = "A_prefix"
  /\ \E r \in RunResults :
       /\ ops' = Append(ops, op("git rev-parse --show-prefix", <<>>, r))
       /\ IF r = runOk
          THEN /\ prefix' = TrimSuffix(showPrefixOutput(cwd))
               /\ pc' = "A_clone"
               /\ err' = noError
          ELSE /\ analyzeReturn(runError("git rev-parse --show-prefix", r))
               /\ UNCHANGED prefix
  /\ UNCHANGED <<inputs, cwd, nTemp, exitCode, logged, panicked, acq, entryDir,
                 rev, pkgname, tmpdir, gitdir, wd, deferred, cil, lists, compareVars>>

\* run(nil, "git", "clone", "--shared", "--no-checkout", "--", gitdir, tmpdir)
AnalyzeClone ==
  /\ pc = "A_clone"
  /\ \E r \in RunResults :
       /\ ops' = Append(ops, op("git clone", <<gitdir, tmpdir>>, r))
       /\ IF r = runOk
          THEN /\ pc' = "A_getwd"
               /\ err' = noError
          ELSE analyzeReturn(runError("git clone", r))
  /\ UNCHANGED <<inputs, cwd, nTemp, exitCode, logged, panicked, acq, entryDir,
                 rev, pkgname, tmpdir, gitdir, prefix, wd, deferred, cil, lists,
                 compareVars>>

\* wd, err := os.Getwd(), and the defer statement that follows it
AnalyzeGetwd ==
  /\ pc = "A_getwd"
  /\ \E ok \in BOOLEAN :
       /\ ops' = Append(ops, op("getwd", <<>>, sysResult(ok)))
       /\ IF ok
          THEN /\ wd' = cwd
               /\ deferred' = TRUE
               /\ pc' = "A_chdirtmp"
               /\ err' = noError
          ELSE /\ analyzeReturn(stepError("getwd"))
               /\ UNCHANGED <<wd, deferred>>
  /\ UNCHANGED <<inputs, cwd, nTemp, exitCode, logged, panicked, acq, entryDir,
                 rev, pkgname, tmpdir, gitdir, prefix, cil, lists, compareVars>>

\* AnalyzeChdirTmp when the error of os.Chdir(tmpdir) is not checked.
AnalyzeChdirTmpUnchecked ==
  /\ pc = "A_chdirtmp"
  /\ \E ok \in BOOLEAN :
       /\ ok => existsDir(absPath(cwd, tmpdir))
       /\ ops' = Append(ops, op("chdir", tmpdir, sysResult(ok)))
       /\ cwd' = IF ok THEN absPath(cwd, tmpdir) ELSE cwd
  /\ pc' = "A_reset"
  /\ err' = noError
  /\ UNCHANGED <<inputs, nTemp, exitCode, logged, panicked, acq, entryDir, rev,
                 pkgname, tmpdir, gitdir, prefix, wd, deferred, cil, lists,
                 compareVars>>

\* os.Chdir(tmpdir)
AnalyzeChdirTmp ==
  /\ pc = "A_chdirtmp"
  /\ \E ok \in BOOLEAN :
       /\ ok => existsDir(absPath(cwd, tmpdir))
       /\ ops' = Append(ops, op("chdir", tmpdir, sysResult(ok)))
       /\ IF ok
          THEN /\ cwd' = absPath(cwd, tmpdir)
               /\ pc' = "A_reset"
               /\ err' = noError
          ELSE /\ analyzeReturn(stepError("switching to temporary directory"))
               /\ UNCHANGED cwd
  /\ UNCHANGED <<inputs, nTemp, exitCode, logged, panicked, acq, entryDir, rev, pkgname,
                 tmpdir, gitdir, prefix, wd, deferred, cil, lists, compareVars>>

\* run(nil, "git", "reset", "--hard", rev)
AnalyzeReset ==
  /\ pc = "A_reset"
  /\ \E r \in RunResults :
       /\ ops' = Append(ops, op("git reset --hard", rev, r))
       /\ IF r = runOk
          THEN /\ pc' = "A_chdirprefix"
               /\ err' = noError
          ELSE analyzeReturn(runError("git reset --hard", r))
  /\ UNCHANGED <<inputs, cwd, nTemp, exitCode, logged, panicked, acq, entryDir,
                 rev, pkgname, tmpdir, gitdir, prefix, wd, deferred, cil, lists,
                 compareVars>>

\* AnalyzeChdirPrefix when the directory entered is the workspace root.
AnalyzeChdirPrefixIgnoringPrefix ==
  /\ pc = "A_chdirprefix"
  /\ \E ok \in BOOLEAN :
       /\ ok => existsDir(absPath(cwd, tmpdir))
       /\ ops' = Append(ops, op("chdir", tmpdir, sysResult(ok)))
       /\ IF ok
          THEN /\ cwd' = absPath(cwd, tmpdir)
               /\ pc' = "A_capslock"
               /\ err' = noError
          ELSE /\ analyzeReturn(stepError("switching to temporary directory"))
               /\ UNCHANGED cwd
  /\ UNCHANGED <<inputs, nTemp, exitCode, logged, panicked, acq, entryDir, rev, pkgname,
                 tmpdir, gitdir, prefix, wd, deferred, cil, lists, compareVars>>

\* os.Chdir(filepath.Join(tmpdir, prefix))
AnalyzeChdirPrefix ==
  /\ pc = "A_chdirprefix"
  /\ \E ok \in BOOLEAN :
       /\ ok => existsDir(absPath(cwd, pathJoin(tmpdir, prefix)))
       /\ ops' = Append(ops, op("chdir", pathJoin(tmpdir, prefix), sysResult(ok)))
       /\ IF ok
          THEN /\ cwd' = absPath(cwd, pathJoin(tmpdir, prefix))
               /\ pc' = "A_capslock"
               /\ err' = noError
          ELSE /\ analyzeReturn(stepError("switching to temporary directory"))
               /\ UNCHANGED cwd
  /\ UNCHANGED <<inputs, nTemp, exitCode, logged, panicked, acq, entryDir, rev, pkgname,
                 tmpdir, gitdir, prefix, wd, deferred, cil, lists, compareVars>>

\* callCapslock: the analyzer runs and its output is unmarshalled; the
\* analyzer fails, or prints what cannot be parsed, or prints a list.
callCapslock ==
  /\ pc = "A_capslock"
  /\ \E r \in RunResults :
       /\ ops' = Append(ops, op("capslock", pkgname, r))
       /\ IF r # runOk
          THEN /\ analyzeReturn(runError("capslock", r))
               /\ cil' = <<>>
          ELSE \/ /\ analyzeReturn(stepError("Couldn't parse analyzer output"))
                  /\ cil' = <<>>
               \/ /\ analyzeReturn(noError)
                  /\ cil' \in CapabilityInfoLists(MaxOut)
  /\ UNCHANGED <<inputs, cwd, nTemp, exitCode, logged, panicked, acq, entryDir,
                 rev, pkgname, tmpdir, gitdir, prefix, wd, deferred, lists, compareVars>>

\* deferredErr when a failed restoration replaces any error.
deferredErrOverwriting(e, ok) ==
  IF ~ok THEN stepError("returning to working directory") ELSE e

\* The error the deferred function leaves in err when os.Chdir(wd) returned
\* an error (ok is FALSE) or nil.
deferredErr(e, ok) ==
  IF e = noError /\ ~ok THEN stepError("returning to working directory") ELSE e

\* AnalyzeDeferred when the deferred function does not change directory.
AnalyzeDeferredWithoutChdir ==
  /\ pc = "A_defer"
  /\ \E ok \in BOOLEAN :
       /\ ok => existsDir(absPath(cwd, wd))
       /\ ops' = Append(ops, op("chdir", wd, sysResult(ok)))
       /\ err' = deferredErr(err, ok)
  /\ cwd' = cwd
  /\ pc' = "A_return"
  /\ UNCHANGED <<inputs, nTemp, exitCode, logged, panicked, acq, entryDir, rev,
                 pkgname, tmpdir, gitdir, prefix, wd, deferred, cil, lists,
                 compareVars>>

\* The deferred function: os.Chdir(wd), whose error replaces a nil err.
AnalyzeDeferred ==
  /\ pc = "A_defer"
  /\ \E ok \in BOOLEAN :
       /\ ok => existsDir(absPath(cwd, wd))
       /\ ops' = Append(ops, op("chdir", wd, sysResult(ok)))
       /\ cwd' = IF ok THEN absPath(cwd, wd) ELSE cwd
       /\ err' = deferredErr(err, ok)
  /\ pc' = "A_return"
  /\ UNCHANGED <<inputs, nTemp, exitCode, logged, panicked, acq, entryDir, rev, pkgname,
                 tmpdir, gitdir, prefix, wd, deferred, cil, lists, compareVars>>

(***************************************************************************)
(* capslock-git-diff: main.                                                *)
(***************************************************************************)
\* The n-th call, AnalyzeAtRevision(r, p): a new activation of the function.
analyzeCall(n, r, p) ==
  /\ acq' = n
  /\ rev' = r
  /\ pkgname' = p
  /\ entryDir' = cwd
  /\ tmpdir' = <<>>
  /\ gitdir' = <<>>
  /\ prefix' = <<>>
  /\ wd' = <<>>
  /\ deferred' = FALSE
  /\ err' = noError
  /\ cil' = <<>>
  /\ pc' = "A_entry"

\* MainStart when a missing package selector defaults to "./...".
MainStartDefaultSelector ==
  /\ pc = "main"
  /\ tool = "gitdiff"
  /\ IF Len(args) < 2 \/ Len(args) > 3
     THEN /\ panicked' = TRUE
          /\ exitCode' = PanicExitCode
          /\ pc' = "exit"
          /\ UNCHANGED frame
     ELSE /\ analyzeCall(1, args[1], IF Len(args) = 3 THEN args[3] ELSE "./...")
          /\ UNCHANGED <<panicked, exitCode>>
  /\ UNCHANGED <<inputs, cwd, nTemp, ops, logged, lists, compareVars>>

\* The check of len(a) and the call AnalyzeAtRevision(a[0], a[2]).
MainStart ==
  /\ pc = "main"
  /\ tool = "gitdiff"
  /\ IF Len(args) # 3
     THEN /\ panicked' = TRUE
          /\ exitCode' = PanicExitCode
          /\ pc' = "exit"
          /\ UNCHANGED frame
     ELSE /\ analyzeCall(1, args[1], args[3])
          /\ UNCHANGED <<panicked, exitCode>>
  /\ UNCHANGED <<inputs, cwd, nTemp, ops, logged, lists, compareVars>>

\* MainFirstReturned when the error of the first call is not checked.
MainFirstReturnedIgnoringError ==
  /\ pc = "A_return"
  /\ acq = 1
  /\ cil1' = cil
  /\ analyzeCall(2, args[2], args[3])
  /\ UNCHANGED <<inputs, cwd, nTemp, ops, logged, exitCode, panicked, cil2,
                 out, different, compareVars>>

\* The first AnalyzeAtRevision returned: exit on an error, or keep cil1 and
\* call AnalyzeAtRevision(a[1], a[2]).
MainFirstReturned ==
  /\ pc = "A_return"
  /\ acq = 1
  /\ IF err # noError
     THEN /\ logged' = Append(logged, err)
          /\ exitCode' = ErrorExitCode
          /\ pc' = "exit"
          /\ UNCHANGED <<frame, cil1>>
     ELSE /\ cil1' = cil
          /\ analyzeCall(2, args[2], args[3])
          /\ UNCHANGED <<logged, exitCode>>
  /\ UNCHANGED <<inputs, cwd, nTemp, ops, panicked, cil2, out, different,
                 compareVars>>

\* The second AnalyzeAtRevision returned: exit on an error, or keep cil2.
MainSecondReturned ==
  /\ pc = "A_return"
  /\ acq = 2
  /\ IF err # noError
     THEN /\ logged' = Append(logged, err)
          /\ exitCode' = ErrorExitCode
          /\ pc' = "exit"
          /\ UNCHANGED cil2
     ELSE /\ cil2' = cil
          /\ pc' = "diff"
          /\ UNCHANGED <<logged, exitCode>>
  /\ UNCHANGED <<inputs, cwd, nTemp, ops, panicked, frame, cil1, out, different,
                 compareVars>>

\* MainDiff without the os.Exit(1).
MainDiffWithoutExit ==
  /\ pc = "diff"
  /\ \E order1 \in mapOrders(DOMAIN populateMap(cil1)) :
       \E order2 \in mapOrders(currentOnly(populateMap(cil1), populateMap(cil2))) :
         LET d == diffCapabilityInfoLists(cil1, cil2, order1, order2)
         IN /\ out' = d.out
            /\ different' = d.different
  /\ exitCode' = 0
  /\ pc' = "exit"
  /\ UNCHANGED <<inputs, cwd, nTemp, ops, logged, panicked, frame, cil1, cil2,
                 compareVars>>

\* different := diffCapabilityInfoLists(cil1, cil2), then os.Exit(1) or the
\* return from main.
MainDiff ==
  /\ pc = "diff"
  /\ \E order1 \in mapOrders(DOMAIN populateMap(cil1)) :
       \E order2 \in mapOrders(currentOnly(populateMap(cil1), populateMap(cil2))) :
         LET d == diffCapabilityInfoLists(cil1, cil2, order1, order2)
         IN /\ out' = d.out
            /\ different' = d.different
            /\ exitCode' = IF d.different THEN DifferentExitCode ELSE 0
  /\ pc' = "exit"
  /\ UNCHANGED <<inputs, cwd, nTemp, ops, logged, panicked, frame, cil1, cil2,
                 compareVars>>

(***************************************************************************)
(* compare: MakeWorkspace, CreateCapabilitiesFile, ComparePackages, main.  *)
(***************************************************************************)
\* A return of ComparePackages with the error e before the comparison ran.
compareFail(e) ==
  /\ err' = e
  /\ pc' = "C_return"

\* What create() makes of an error of MakeWorkspace.
createError(e) == wrapError("creating temporary workspace", e)

\* The check of len(a) and the call of ComparePackages, up to create(v1).
CompareStart ==
  /\ pc = "main"
  /\ tool = "compare"
  /\ IF Len(args) # 3
     THEN /\ panicked' = TRUE
          /\ exitCode' = PanicExitCode
          /\ pc' = "exit"
          /\ UNCHANGED ws
     ELSE /\ ws' = 1
          /\ pc' = "W_mkdirtemp"
          /\ UNCHANGED <<panicked, exitCode>>
  /\ UNCHANGED <<inputs, cwd, nTemp, ops, logged, frame, lists, filename,
                 fileState, ranComparison>>

\* MakeWorkspace: tmpdir, err := os.MkdirTemp(os.Getenv("CAPSLOCKTOOLSTMPDIR"), "")
WorkspaceMkdirTemp ==
  /\ pc = "W_mkdirtemp"
  /\ \E ok \in BOOLEAN :
       /\ ok => existsDir(absPath(cwd, tempBase(tmpEnv)))
       /\ ops' = Append(ops, op("mkdirtemp",
                             IF ok THEN absPath(cwd, MkdirTemp(tmpEnv, nTemp + 1))
                             ELSE <<>>,
                             sysResult(ok)))
       /\ IF ok
          THEN /\ nTemp' = nTemp + 1
               /\ tmpdir' = MkdirTemp(tmpEnv, nTemp + 1)
               /\ pc' = "W_chdir"
               /\ UNCHANGED err
          ELSE /\ compareFail(createError(stepError("creating temporary directory")))
               /\ UNCHANGED <<nTemp, tmpdir>>
  /\ UNCHANGED <<inputs, cwd, exitCode, logged, panicked, acq, entryDir, rev, pkgname,
                 gitdir, prefix, wd, deferred, cil, lists, compareVars>>

\* MakeWorkspace: os.Chdir(tmpdir)
WorkspaceChdir ==
  /\ pc = "W_chdir"
  /\ \E ok \in BOOLEAN :
       /\ ok => existsDir(absPath(cwd, tmpdir))
       /\ ops' = Append(ops, op("chdir", tmpdir, sysResult(ok)))
       /\ IF ok
          THEN /\ cwd' = absPath(cwd, tmpdir)
               /\ pc' = "W_modinit"
               /\ UNCHANGED err
          ELSE /\ compareFail(createError(stepError("switching to temporary directory")))
               /\ UNCHANGED cwd
  /\ UNCHANGED <<inputs, nTemp, exitCode, logged, panicked, acq, entryDir, rev, pkgname,
                 tmpdir, gitdir, prefix, wd, deferred, cil, lists, compareVars>>

\* MakeWorkspace: run(nil, "go", "mod", "init", "capslockworkspace")
WorkspaceModInit ==
  /\ pc = "W_modinit"
  /\ \E r \in RunResults :
       /\ ops' = Append(ops, op("go mod init", <<>>, r))
       /\ IF r = runOk
          THEN /\ pc' = "W_goget"
               /\ UNCHANGED err
          ELSE compareFail(createError(runError("go mod init", r)))
  /\ UNCHANGED <<inputs, cwd, nTemp, exitCode, logged, panicked, acq, entryDir,
                 rev, pkgname, tmpdir, gitdir, prefix, wd, deferred, cil, lists,
                 compareVars>>

\* MakeWorkspace: run(nil, "go", "get", pkgname), and what ComparePackages
\* does next: CreateCapabilitiesFile after create(v1), the comparison after
\* create(v2).
WorkspaceGoGet ==
  /\ pc = "W_goget"
  /\ \E r \in RunResults :
       /\ ops' = Append(ops, op("go get", <<args[1], args[ws + 1]>>, r))
       /\ IF r = runOk
          THEN /\ pc' = IF ws = 1 THEN "F_getwd" ELSE "C_compare"
               /\ UNCHANGED err
          ELSE compareFail(createError(runError("go get", r)))
  /\ UNCHANGED <<inputs, cwd, nTemp, exitCode, logged, panicked, acq, entryDir,
                 rev, pkgname, tmpdir, gitdir, prefix, wd, deferred, cil, lists,
                 compareVars>>

\* CreateCapabilitiesFile: dir, err := os.Getwd()
FileGetwd ==
  /\ pc = "F_getwd"
  /\ \E ok \in BOOLEAN :
       /\ ops' = Append(ops, op("getwd", <<>>, sysResult(ok)))
       /\ IF ok
          THEN /\ wd' = cwd
               /\ pc' = "F_create"
               /\ UNCHANGED err
          ELSE /\ compareFail(stepError("getwd"))
               /\ UNCHANGED wd
  /\ UNCHANGED <<inputs, cwd, nTemp, exitCode, logged, panicked, acq, entryDir,
                 rev, pkgname, tmpdir, gitdir, prefix, deferred, cil, lists, compareVars>>

\* CreateCapabilitiesFile: f, err := os.Create("capslock.json") and
\* filename = path.Join(dir, f.Name())
FileCreate ==
  /\ pc = "F_create"
  /\ \E ok \in BOOLEAN :
       /\ ops' = Append(ops, op("create", <<"capslock.json">>, sysResult(ok)))
       /\ IF ok
          THEN /\ fileState' = "open"
               /\ filename' = pathJoin(wd, <<"capslock.json">>)
               /\ pc' = "F_run"
               /\ UNCHANGED err
          ELSE /\ compareFail(stepError("creating temporary file for writing capabilities"))
               /\ UNCHANGED <<fileState, filename>>
  /\ UNCHANGED <<inputs, cwd, nTemp, exitCode, logged, panicked, acq, entryDir,
                 rev, pkgname, tmpdir, gitdir, prefix, wd, deferred, cil, lists, ws,
                 ranComparison>>

\* FileRun when the function returns without f.Close().
FileRunSkippingClose ==
  /\ pc = "F_run"
  /\ \E r \in RunResults :
       /\ ops' = Append(ops, op("capslock -output=json", filename, r))
       /\ IF r = runOk
          THEN /\ ws' = 2
               /\ pc' = "W_mkdirtemp"
               /\ UNCHANGED err
          ELSE /\ compareFail(runError("capslock -output=json", r))
               /\ UNCHANGED ws
  /\ UNCHANGED <<inputs, cwd, nTemp, exitCode, logged, panicked, acq, entryDir,
                 rev, pkgname, tmpdir, gitdir, prefix, wd, deferred, cil, lists,
                 filename, fileState, ranComparison>>

\* CreateCapabilitiesFile: run(f, "capslock", "-packages="+pkgname, "-output=json")
FileRun ==
  /\ pc = "F_run"
  /\ \E r \in RunResults :
       /\ ops' = Append(ops, op("capslock -output=json", filename, r))
       /\ IF r = runOk
          THEN /\ pc' = "F_close"
               /\ UNCHANGED err
          ELSE compareFail(runError("capslock -output=json", r))
  /\ UNCHANGED <<inputs, cwd, nTemp, exitCode, logged, panicked, acq, entryDir,
                 rev, pkgname, tmpdir, gitdir, prefix, wd, deferred, cil, lists,
                 compareVars>>

\* CreateCapabilitiesFile: return filename, f.Close(), and create(v2) after it
FileClose ==
  /\ pc = "F_close"
  /\ \E ok \in BOOLEAN :
       /\ ops' = Append(ops, op("close", filename, sysResult(ok)))
       /\ IF ok
          THEN /\ fileState' = "closed"
               /\ ws' = 2
               /\ pc' = "W_mkdirtemp"
               /\ UNCHANGED err
          ELSE /\ fileState' = "closefailed"
               /\ compareFail(stepError("close"))
               /\ UNCHANGED ws
  /\ UNCHANGED <<inputs, cwd, nTemp, exitCode, logged, panicked, acq, entryDir,
                 rev, pkgname, tmpdir, gitdir, prefix, wd, deferred, cil, lists,
                 filename, ranComparison>>

\* return true, run(os.Stdout, "capslock", "-packages="+pkgname,
\* "-output=compare", filename)
CompareRun ==
  /\ pc = "C_compare"
  /\ \E r \in RunResults :
       /\ ops' = Append(ops, op("capslock -output=compare", filename, r))
       /\ err' = IF r = runOk THEN noError
                 ELSE runError("capslock -output=compare", r)
  /\ ranComparison' = TRUE
  /\ pc' = "C_return"
  /\ UNCHANGED <<inputs, cwd, nTemp, exitCode, logged, panicked, acq, entryDir,
                 rev, pkgname, tmpdir, gitdir, prefix, wd, deferred, cil, lists, ws,
                 filename, fileState>>

\* errors.As(err, &e) && e.ProcessState != nil: an *exec.ExitError that
\* cmd.Run() returned is in the chain.
isExitError(e) == e.kind = "ExitError"

\* CompareReturned without the test of ranComparison.
CompareReturnedAnyExitError ==
  /\ pc = "C_return"
  /\ IF err = noError
     THEN /\ exitCode' = 0
          /\ UNCHANGED logged
     ELSE IF isExitError(err)
     THEN /\ exitCode' = exitStatus(err.code)
          /\ UNCHANGED logged
     ELSE /\ logged' = Append(logged, err)
          /\ exitCode' = FatalExitCode
  /\ pc' = "exit"
  /\ UNCHANGED <<inputs, cwd, nTemp, ops, panicked, frame, lists, compareVars>>

\* main after ComparePackages returned: os.Exit(e.ExitCode()), log.Fatal,
\* or the return from main.
CompareReturned ==
  /\ pc = "C_return"
  /\ IF err = noError
     THEN /\ exitCode' = 0
          /\ UNCHANGED logged
     ELSE IF ranComparison /\ isExitError(err)
     THEN /\ exitCode' = exitStatus(err.code)
          /\ UNCHANGED logged
     ELSE /\ logged' = Append(logged, err)
          /\ exitCode' = FatalExitCode
  /\ pc' = "exit"
  /\ UNCHANGED <<inputs, cwd, nTemp, ops, panicked, frame, lists, compareVars>>

(***************************************************************************)
(* The runs of the tools.                                                  *)
(***************************************************************************)
Next ==
  \/ MainStart
  \/ AnalyzeEntry
  \/ AnalyzeMkdirTemp
  \/ AnalyzeGitDir
  \/ AnalyzePrefix
  \/ AnalyzeClone
  \/ AnalyzeGetwd
  \/ AnalyzeChdirTmp
  \/ AnalyzeReset
  \/ AnalyzeChdirPrefix
  \/ callCapslock
  \/ AnalyzeDeferred
  \/ MainFirstReturned
  \/ MainSecondReturned
  \/ MainDiff
  \/ CompareStart
  \/ WorkspaceMkdirTemp
  \/ WorkspaceChdir
  \/ WorkspaceModInit
  \/ WorkspaceGoGet
  \/ FileGetwd
  \/ FileCreate
  \/ FileRun
  \/ FileClose
  \/ CompareRun
  \/ CompareReturned

Spec == Init /\ [][Next]_vars

(***************************************************************************)
(* diffCapabilityInfoLists on its own: any two capability lists of at most *)
(* MaxLen records, cil1 as the baseline and cil2 as the current list.      *)
(***************************************************************************)
InitDiff ==
  /\ tool = "gitdiff"
  /\ args = <<"main", ".", "./...">>
  /\ tmpEnv = <<>>
  /\ startDir = RepoRoot
  /\ pc = "diffcall"
  /\ cwd = startDir
  /\ nTemp = 0
  /\ ops = <<>>
  /\ exitCode = NotExited
  /\ logged = <<>>
  /\ panicked = FALSE
  /\ acq = 0
  /\ entryDir = <<>>
  /\ rev = ""
  /\ pkgname = ""
  /\ tmpdir = <<>>
  /\ gitdir = <<>>
  /\ prefix = <<>>
  /\ wd = <<>>
  /\ deferred = FALSE
  /\ err = noError
  /\ cil = <<>>
  /\ cil1 \in CapabilityInfoLists(MaxLen)
  /\ cil2 \in CapabilityInfoLists(MaxLen)
  /\ out = <<>>
  /\ different = FALSE
  /\ ws = 0
  /\ filename = <<>>
  /\ fileState = "none"
  /\ ranComparison = FALSE

\* different := diffCapabilityInfoLists(cil1, cil2)
DiffCall ==
  /\ pc = "diffcall"
  /\ \E order1 \in mapOrders(DOMAIN populateMap(cil1)) :
       \E order2 \in mapOrders(currentOnly(populateMap(cil1), populateMap(cil2))) :
         LET d == diffCapabilityInfoLists(cil1, cil2, order1, order2)
         IN /\ out' = d.out
            /\ different' = d.different
  /\ pc' = "diffdone"
  /\ UNCHANGED <<inputs, cwd, nTemp, ops, exitCode, logged, panicked, frame,
                 cil1, cil2, compareVars>>

NextDiff == DiffCall

SpecDiff == InitDiff /\ [][NextDiff]_vars

(***************************************************************************)
(* What the properties speak of.                                           *)
(***************************************************************************)
\* The (capability, package) keys of a capability list.
keysOf(l) == {mapKey(l[i]) : i \in DOMAIN l}

\* The record a snapshot holds for the key k of the list l: the last one.
recordOf(l, k) ==
  l[CHOOSE i \in DOMAIN l :
      /\ mapKey(l[i]) = k
      /\ \A j \in DOMAIN l : mapKey(l[j]) = k => j <= i]

\* The positions of the entries in the output.
entriesAt == {i \in DOMAIN out : out[i].kind = "entry"}

outKey(e) == [key |-> e.key, capability |-> e.capability]

\* The operations of the n-th call of AnalyzeAtRevision.
opsOfCall(n) == {i \in DOMAIN ops : ops[i].call = n}

\* The call of AnalyzeAtRevision in progress has run its deferred function,
\* and the os.Chdir(wd) of that function failed.
restoreFailed ==
  /\ deferred
  /\ ops # <<>>
  /\ ops[Len(ops)].op = "chdir"
  /\ ~opOk(ops[Len(ops)])

\* The steps of AnalyzeAtRevision before the working directory is recorded.
EarlySteps ==
  {"creating temporary directory", "git rev-parse --git-dir",
   "git rev-parse --show-prefix", "git clone", "getwd"}

(***************************************************************************)
(* C1.  diffCapabilityInfoLists emits exactly one entry for every key in   *)
(* the symmetric difference of the key sets of baseline and current and no *)
(* other entry: a '>' entry with current's call path for a key of current  *)
(* only, a '<' entry with baseline's call path for a key of baseline only; *)
(* it returns true exactly when it emitted an entry.                       *)
(***************************************************************************)
C1_SymmetricDifference ==
  pc = "diffdone" =>
    LET gained == keysOf(cil2) \ keysOf(cil1)
        lost == keysOf(cil1) \ keysOf(cil2)
    IN /\ \A k \in gained \cup lost :
            Cardinality({i \in entriesAt : outKey(out[i]) = k}) = 1
       /\ \A i \in entriesAt :
            LET k == outKey(out[i])
            IN \/ /\ k \in gained
                  /\ out[i].side = ">"
                  /\ out[i].path = recordOf(cil2, k).path
               \/ /\ k \in lost
                  /\ out[i].side = "<"
                  /\ out[i].path = recordOf(cil1, k).path
       /\ different = (entriesAt # {})

\* A gained and a lost entry in one output, and a key of both lists.
C1_Witness ==
  /\ pc = "diffdone"
  /\ \E i, j \in entriesAt : out[i].side = ">" /\ out[j].side = "<"
  /\ keysOf(cil1) \cap keysOf(cil2) # {}

(***************************************************************************)
(* C2.  git reset --hard runs only in the temporary directory that the     *)
(* same call of AnalyzeAtRevision created, and which no other call made,   *)
(* never in the directory the caller was in.                               *)
(***************************************************************************)
C2_ResetOnlyInOwnWorkspace ==
  \A i \in DOMAIN ops :
    ops[i].op = "git reset --hard" =>
      /\ ops[i].dir # startDir
      /\ \E j \in 1..(i - 1) :
           /\ ops[j].op = "mkdirtemp"
           /\ opOk(ops[j])
           /\ ops[j].call = ops[i].call
           /\ ops[j].arg = ops[i].dir
      /\ \A j \in 1..(i - 1) :
           (ops[j].op = "mkdirtemp" /\ opOk(ops[j]) /\ ops[j].call # ops[i].call)
             => ops[j].arg # ops[i].dir

\* The second call resets its workspace after the first call made its own.
C2_Witness ==
  \E i \in DOMAIN ops :
    /\ ops[i].op = "git reset --hard"
    /\ ops[i].call = 2
    /\ \E j \in DOMAIN ops : ops[j].op = "git reset --hard" /\ ops[j].call = 1

(***************************************************************************)
(* C3.  As claimed: when AnalyzeAtRevision returns an error for a revision *)
(* other than ".", whichever step failed, the last thing it did was an     *)
(* os.Chdir back to the directory that was active at entry.                *)
(***************************************************************************)
C3_Original ==
  (pc = "A_return" /\ rev # "." /\ err # noError) =>
    /\ ops # <<>>
    /\ ops[Len(ops)].op = "chdir"
    /\ ops[Len(ops)].arg = entryDir
    /\ ops[Len(ops)].call = acq

(***************************************************************************)
(* C3, amended.  When AnalyzeAtRevision returns an error for a revision    *)
(* other than ".": if the failed step is the switch into the temporary     *)
(* directory, the reset, the switch into the prefix directory, the         *)
(* analyzer or the restoration itself, the last thing the call did was an  *)
(* os.Chdir back to the directory active at entry; if it is an earlier     *)
(* step (temporary directory, rev-parse, clone, Getwd) the call made no    *)
(* os.Chdir at all and the working directory is still the one at entry.    *)
(***************************************************************************)
C3_RestoreAttemptAfterLateFailure ==
  (pc = "A_return" /\ rev # "." /\ err # noError) =>
    IF err.step[1] \in EarlySteps
    THEN /\ \A i \in opsOfCall(acq) : ops[i].op # "chdir"
         /\ cwd = entryDir
    ELSE /\ ops # <<>>
         /\ ops[Len(ops)].op = "chdir"
         /\ ops[Len(ops)].arg = entryDir
         /\ ops[Len(ops)].call = acq

\* The reset failed in the temporary directory and the call went back.
C3_Witness ==
  /\ pc = "A_return"
  /\ rev # "."
  /\ err.step = <<"git reset --hard">>
  /\ ops[Len(ops)].op = "chdir"
  /\ opOk(ops[Len(ops)])
  /\ ops[Len(ops) - 1].dir # entryDir
  /\ cwd = entryDir

(***************************************************************************)
(* C4.  When AnalyzeAtRevision returns and its restoring os.Chdir did not  *)
(* fail, the working directory is the one the call began in; the second    *)
(* call begins in the directory the process, and so the first call,        *)
(* started in.                                                             *)
(***************************************************************************)
C4_WorkingDirectoryRestored ==
  /\ (pc = "A_return" /\ ~restoreFailed) => cwd = entryDir
  /\ acq \in {1, 2} => entryDir = startDir

\* The second call returns after it was in its temporary directory.
C4_Witness ==
  /\ pc = "A_return"
  /\ acq = 2
  /\ ~restoreFailed
  /\ \E i \in opsOfCall(2) : ops[i].op = "capslock" /\ ops[i].dir # entryDir
  /\ \E i \in opsOfCall(1) : ops[i].op = "capslock" /\ ops[i].dir # entryDir
  /\ cwd = startDir

(***************************************************************************)
(* C5.  When the os.Chdir of the deferred function fails, the error        *)
(* AnalyzeAtRevision returns is the earlier error, unchanged, if there is  *)
(* one, and the restoration error otherwise; it is never nil.              *)
(***************************************************************************)
C5_EarlierErrorTakesPrecedence ==
  [][(pc = "A_defer" /\ pc' = "A_return" /\ ~opOk(ops'[Len(ops')])) =>
       /\ err # noError => err' = err
       /\ err = noError => err' = stepError("returning to working directory")
       /\ err' # noError]_vars

\* The reset failed, then the restoration failed: the reset's error is returned.
C5_Witness ==
  /\ pc = "A_return"
  /\ restoreFailed
  /\ ~opOk(ops[Len(ops) - 1])
  /\ ops[Len(ops) - 1].op = "git reset --hard"
  /\ err = runError("git reset --hard", ops[Len(ops) - 1].res)

(***************************************************************************)
(* C6.  A call of AnalyzeAtRevision for the revision "." creates no        *)
(* temporary directory, runs no git command and changes no directory: all  *)
(* it does is run the analyzer once, in the directory it was called in.    *)
(***************************************************************************)
C6_SentinelRunsAnalyzerInPlace ==
  \A n \in {1, 2} :
    (tool = "gitdiff" /\ acq >= n /\ args[n] = ".") =>
      /\ \A i \in opsOfCall(n) : ops[i].op = "capslock" /\ ops[i].dir = startDir
      /\ Cardinality(opsOfCall(n)) <= 1
      /\ (acq > n \/ pc \in {"A_return", "diff", "exit"}) =>
           Cardinality(opsOfCall(n)) = 1
      /\ (acq = n /\ pc \in {"A_entry", "A_capslock", "A_return"}) => cwd = entryDir
      /\ \A i \in DOMAIN ops :
           (ops[i].op = "mkdirtemp" /\ opOk(ops[i])) => ops[i].call # n

\* The second call is for "." and returned, after a first call that cloned.
C6_Witness ==
  /\ tool = "gitdiff"
  /\ acq = 2
  /\ rev = "."
  /\ pc = "A_return"
  /\ nTemp = 1
  /\ Cardinality(opsOfCall(2)) = 1

(***************************************************************************)
(* The outcome of a run of capslock-git-diff, once it has exited.          *)
(***************************************************************************)
\* A call of AnalyzeAtRevision returned an error to main.
acquisitionFailed == err # noError

\* Both calls of AnalyzeAtRevision returned a list and no error.
bothAcquired == acq = 2 /\ err = noError

\* The two snapshots differ in their key sets.
snapshotsDiffer == keysOf(cil1) # keysOf(cil2)

exitStatusRule ==
  /\ exitCode = 0 <=> (bothAcquired /\ ~snapshotsDiffer)
  /\ exitCode = DifferentExitCode <=> (bothAcquired /\ snapshotsDiffer)
  /\ exitCode = ErrorExitCode <=> acquisitionFailed

(***************************************************************************)
(* C7.  As claimed: the exit status of capslock-git-diff is 0 exactly when *)
(* both acquisitions succeed and the snapshots do not differ, 1 exactly    *)
(* when both succeed and they differ, and 2 exactly when an acquisition or *)
(* analysis step fails.                                                    *)
(***************************************************************************)
C7_Original == (tool = "gitdiff" /\ pc = "exit") => exitStatusRule

(***************************************************************************)
(* C7, amended.  When capslock-git-diff is given exactly three arguments,  *)
(* its exit status is 0 exactly when both acquisitions succeed and the     *)
(* snapshots do not differ, 1 exactly when both succeed and they differ,   *)
(* and 2 exactly when an acquisition or analysis step fails; with any      *)
(* other number of arguments it panics, which also ends the process with   *)
(* status 2, and no step has run or failed.                                *)
(***************************************************************************)
C7_ExitStatus ==
  (tool = "gitdiff" /\ pc = "exit") =>
    IF Len(args) = 3
    THEN exitStatusRule /\ ~panicked
    ELSE panicked /\ exitCode = PanicExitCode /\ ops = <<>> /\ ~acquisitionFailed

\* Both acquisitions succeeded, entries were printed, and the status is 1.
C7_Witness ==
  /\ tool = "gitdiff"
  /\ pc = "exit"
  /\ bothAcquired
  /\ entriesAt # {}
  /\ exitCode = DifferentExitCode

(***************************************************************************)
(* C8.  As claimed: given the two revisions and no package selector,       *)
(* capslock-git-diff goes on to acquire the revisions.                     *)
(***************************************************************************)
C8_Original ==
  (tool = "gitdiff" /\ Len(args) = 2 /\ pc # "main") => (acq >= 1 /\ ~panicked)

(***************************************************************************)
(* C8, amended.  Given the two revisions and no package selector,          *)
(* capslock-git-diff panics ("wrong number of arguments") before it        *)
(* acquires anything: no call of AnalyzeAtRevision, no external operation, *)
(* no output; the package selector has no default.                         *)
(***************************************************************************)
C8_TwoArgumentsPanic ==
  (tool = "gitdiff" /\ Len(args) = 2 /\ pc # "main") =>
    /\ panicked
    /\ pc = "exit"
    /\ exitCode = PanicExitCode
    /\ acq = 0
    /\ ops = <<>>
    /\ out = <<>>

\* The run with two arguments has ended.
C8_Witness ==
  /\ tool = "gitdiff"
  /\ Len(args) = 2
  /\ pc = "exit"
  /\ panicked

(***************************************************************************)
(* C9.  As claimed: in either tool, every error except a non-zero exit     *)
(* status of the analyzer's comparison run is logged and ends the process  *)
(* with status 2.                                                          *)
(***************************************************************************)
\* The error is the non-zero exit status of the analyzer's comparison run.
comparisonExited ==
  /\ tool = "compare"
  /\ ops # <<>>
  /\ ops[Len(ops)].op = "capslock -output=compare"
  /\ ops[Len(ops)].res.kind = "exit"

C9_Original ==
  (pc = "exit" /\ err # noError /\ ~comparisonExited) =>
    /\ logged = <<err>>
    /\ exitCode = 2

(***************************************************************************)
(* C10.  compare exits with status 0 when every step succeeds; with the    *)
(* analyzer's exit status when the comparison run was started and exited   *)
(* with a non-zero status; and when any other step fails, or the           *)
(* comparison run could not be started, it logs the error and exits by     *)
(* log.Fatal, whatever status the failed subprocess exited with.           *)
(***************************************************************************)
C10_CompareExitStatus ==
  (tool = "compare" /\ pc = "exit" /\ ~panicked) =>
    LET last == ops[Len(ops)]
        comparison == last.op = "capslock -output=compare"
    IN /\ (\A i \in DOMAIN ops : opOk(ops[i])) =>
            (comparison /\ exitCode = 0 /\ logged = <<>>)
       /\ (comparison /\ last.res.kind = "exit") =>
            (exitCode = last.res.code /\ logged = <<>>)
       /\ (~opOk(last) /\ (~comparison \/ last.res.kind = "nostart")) =>
            (exitCode = FatalExitCode /\ logged = <<err>> /\ err # noError)

\* The comparison run exited with status 2, and so did compare.
C10_Witness ==
  /\ tool = "compare"
  /\ pc = "exit"
  /\ ranComparison
  /\ ops[Len(ops)].op = "capslock -output=compare"
  /\ ops[Len(ops)].res = [kind |-> "exit", code |-> 2]
  /\ exitCode = 2
  /\ fileState = "closed"
  /\ nTemp = 2

(***************************************************************************)
(* C11.  In capslock-git-diff no step is retried and nothing runs after a  *)
(* failed step: within one call of AnalyzeAtRevision every command runs at *)
(* most once, and after a failed operation the call does nothing but the   *)
(* restoring os.Chdir; the second call starts only after the first         *)
(* returned no error; diffCapabilityInfoLists runs and prints only after   *)
(* both calls returned no error.                                           *)
(***************************************************************************)
\* The operations that start a subprocess.
isSubprocess(o) == o.op \notin {"mkdirtemp", "getwd", "chdir", "create", "close"}

noStepAfterFailure ==
  \A n \in {1, 2} :
    \A i \in opsOfCall(n) :
      /\ \A j \in opsOfCall(n) :
           (i # j /\ isSubprocess(ops[i])) => ops[j].op # ops[i].op
      /\ ~opOk(ops[i]) =>
           \A j \in opsOfCall(n) :
             j > i => /\ ops[j].op = "chdir"
                      /\ ops[j].arg = startDir
                      /\ \A k \in opsOfCall(n) : k <= j

C11_NoRetryNoPartialResult ==
  /\ [](tool = "gitdiff" =>
          /\ noStepAfterFailure
          /\ acq = 2 => \A i \in opsOfCall(1) : opOk(ops[i])
          /\ (pc = "diff" \/ out # <<>>) =>
               /\ acq = 2
               /\ err = noError
               /\ logged = <<>>
               /\ \A i \in DOMAIN ops : opOk(ops[i]))
  /\ [][/\ (acq = 1 /\ acq' = 2) => err = noError
        /\ (pc # "diff" /\ pc' = "diff") => (acq = 2 /\ err = noError)]_vars

\* The reset of the first call failed: the call went back and the run ended.
C11_Witness ==
  /\ tool = "gitdiff"
  /\ pc = "exit"
  /\ acq = 1
  /\ Len(ops) >= 2
  /\ ops[Len(ops) - 1].op = "git reset --hard"
  /\ ~opOk(ops[Len(ops) - 1])
  /\ ops[Len(ops)].op = "chdir"
  /\ opsOfCall(2) = {}
  /\ out = <<>>
  /\ exitCode = ErrorExitCode

(***************************************************************************)
(* C12.  diffCapabilityInfoLists(A, A) prints no entry and returns false.  *)
(***************************************************************************)
C12_Reflexive ==
  (pc = "diffdone" /\ cil1 = cil2) => (out = <<>> /\ ~different)

\* A list of two records with two keys was compared with itself.
C12_Witness ==
  /\ pc = "diffdone"
  /\ cil1 = cil2
  /\ Cardinality(keysOf(cil1)) = 2
  /\ out = <<>>

(***************************************************************************)
(* C13.  diffCapabilityInfoLists(A, B) and diffCapabilityInfoLists(B, A)   *)
(* print the same keys in the same order, with the same call paths and     *)
(* with '>' and '<' exchanged, and return the same boolean.                *)
(***************************************************************************)
otherSide(side) == IF side = ">" THEN "<" ELSE ">"

\* The output o with the two sides exchanged.
swapped(o) ==
  [i \in DOMAIN o |->
     IF o[i].kind = "entry"
     THEN [o[i] EXCEPT !.side = otherSide(o[i].side),
                       !.prefix = otherSide(o[i].side) \o " "]
     ELSE o[i]]

C13_Symmetric ==
  pc = "diffdone" =>
    \A order1 \in mapOrders(DOMAIN populateMap(cil2)) :
      \A order2 \in mapOrders(currentOnly(populateMap(cil2), populateMap(cil1))) :
        LET d == diffCapabilityInfoLists(cil2, cil1, order1, order2)
        IN /\ d.out = swapped(out)
           /\ d.different = different

\* Two keys of the baseline only and one of current only were printed.
C13_Witness ==
  /\ pc = "diffdone"
  /\ Cardinality({i \in entriesAt : out[i].side = "<"}) = 2
  /\ Cardinality({i \in entriesAt : out[i].side = ">"}) = 1
  /\ keysOf(cil1) \cap keysOf(cil2) = {}

(***************************************************************************)
(* Permutations of the records of a list.                                  *)
(***************************************************************************)
permutationsOf(l) ==
  {[i \in DOMAIN l |-> l[p[i]]] : p \in mapOrders(DOMAIN l)}

\* The snapshots populateMap builds of the permutations of the list l.
snapshotsOfPermutations(l) == {populateMap(b) : b \in permutationsOf(l)}

\* The outputs and results of diffCapabilityInfoLists for lists of which bm
\* and cm are the snapshots, one for each pair of orders of the range loops.
diffResults(bm, cm) ==
  {diffSnapshots(bm, cm, order1, order2) :
     order1 \in mapOrders(DOMAIN bm),
     order2 \in mapOrders(currentOnly(bm, cm))}

\* No two records of the list l have the same key and different call paths.
noConflict(l) ==
  \A i, j \in DOMAIN l : mapKey(l[i]) = mapKey(l[j]) => l[i].path = l[j].path

\* The output o without the call paths of its entries.
withoutPaths(o) ==
  [i \in DOMAIN o |->
     IF o[i].kind = "entry" THEN [o[i] EXCEPT !.path = <<>>] ELSE o[i]]

(***************************************************************************)
(* C14.  As claimed: for any two lists, permuting the records of either    *)
(* list leaves the output and the result identical, call paths included.   *)
(***************************************************************************)
C14_Original ==
  pc = "diffdone" =>
    \A bm \in snapshotsOfPermutations(cil1) :
      \A cm \in snapshotsOfPermutations(cil2) :
        \A d \in diffResults(bm, cm) : d.out = out /\ d.different = different

(***************************************************************************)
(* C14, amended.  For any two lists, permuting the records of either list  *)
(* leaves identical the result and the sequence of entries and blank       *)
(* lines with the side, key and capability of every entry; the call paths  *)
(* are identical too when no list holds two records with the same key and  *)
(* different call paths (of such records the last one gives the path).     *)
(***************************************************************************)
C14_PermutationInvariant ==
  pc = "diffdone" =>
    \A bm \in snapshotsOfPermutations(cil1) :
      \A cm \in snapshotsOfPermutations(cil2) :
        \A d \in diffResults(bm, cm) :
        /\ d.different = different
        /\ withoutPaths(d.out) = withoutPaths(out)
        /\ (noConflict(cil1) /\ noConflict(cil2)) => d.out = out

\* Both lists have two records with two keys, and three entries are printed.
C14_Witness ==
  /\ pc = "diffdone"
  /\ Len(cil1) = 2 /\ Cardinality(keysOf(cil1)) = 2
  /\ Len(cil2) = 2 /\ Cardinality(keysOf(cil2)) = 2
  /\ Cardinality(entriesAt) >= 2
  /\ \E i, j \in entriesAt : out[i].side # out[j].side

(***************************************************************************)
(* C15.  A key of both baseline and current never gives an entry and       *)
(* never makes the result true, whatever the call paths of its records.    *)
(***************************************************************************)
C15_CommonKeysSilent ==
  pc = "diffdone" =>
    /\ \A i \in entriesAt : outKey(out[i]) \notin keysOf(cil1) \cap keysOf(cil2)
    /\ different => keysOf(cil1) # keysOf(cil2)

\* The two lists have the same keys, one of them with two call paths.
C15_Witness ==
  /\ pc = "diffdone"
  /\ keysOf(cil1) = keysOf(cil2)
  /\ \E k \in keysOf(cil1) : recordOf(cil1, k).path # recordOf(cil2, k).path
  /\ out = <<>>
  /\ ~different

(***************************************************************************)
(* C16.  The entries are printed in strictly ascending order of the        *)
(* capability value, then of the package directory string, gained and lost *)
(* entries in one order; no key is printed twice.                          *)
(***************************************************************************)
\* The string s is before t in the bytewise lexicographic order.
lexBefore(s, t) ==
  \E n \in 0..Len(s) :
    /\ n <= Len(t)
    /\ \A i \in 1..n : s[i] = t[i]
    /\ \/ n = Len(s) /\ n < Len(t)
       \/ n < Len(s) /\ n < Len(t) /\ s[n + 1] < t[n + 1]

C16_AscendingOrder ==
  pc = "diffdone" =>
    \A i, j \in entriesAt :
      i < j =>
        \/ out[i].capability < out[j].capability
        \/ /\ out[i].capability = out[j].capability
           /\ lexBefore(out[i].key, out[j].key)

\* Four entries: gained and lost alternate, two capabilities, two packages.
C16_Witness ==
  /\ pc = "diffdone"
  /\ Cardinality(entriesAt) = 4
  /\ \E i, j, k \in entriesAt :
       i < j /\ j < k /\ out[i].side # out[j].side /\ out[j].side # out[k].side

(***************************************************************************)
(* C19.  A blank line is printed immediately before every entry but the    *)
(* first and nowhere else: n >= 1 entries have n - 1 blank lines, none     *)
(* before the first entry and none after the last, however gained and      *)
(* lost entries alternate.                                                 *)
(***************************************************************************)
blanksAt == {i \in DOMAIN out : out[i].kind = "blank"}

C19_BlankLineBetweenEntries ==
  pc = "diffdone" =>
    /\ \A i \in DOMAIN out :
         out[i].kind = "entry" <=> (i = 1 \/ out[i - 1].kind = "blank")
    /\ \A i \in blanksAt : i < Len(out) /\ out[i + 1].kind = "entry"
    /\ entriesAt # {} => Cardinality(blanksAt) = Cardinality(entriesAt) - 1
    /\ entriesAt = {} => out = <<>>

\* Gained, lost, lost, gained: four entries and three blank lines.
C19_Witness ==
  /\ pc = "diffdone"
  /\ Len(out) = 7
  /\ out[1].kind = "entry" /\ out[1].side = ">"
  /\ out[3].kind = "entry" /\ out[3].side = "<"
  /\ out[5].kind = "entry" /\ out[5].side = "<"
  /\ out[7].kind = "entry" /\ out[7].side = ">"
  /\ blanksAt = {2, 4, 6}

(***************************************************************************)
(* C20.  populateMap accepts every list; the snapshot has exactly the keys *)
(* of the list, one record for each: the last record of the list with that *)
(* key.  The call path of each printed entry is that of this record.       *)
(***************************************************************************)
isSnapshotOf(m, l) ==
  /\ DOMAIN m = keysOf(l)
  /\ \A k \in keysOf(l) : m[k] = recordOf(l, k)
  /\ \A k \in DOMAIN m : \E i \in DOMAIN l :
       /\ l[i] = m[k]
       /\ \A j \in DOMAIN l : j > i => mapKey(l[j]) # k

C20_LastWriteWins ==
  pc = "diffdone" =>
    /\ isSnapshotOf(populateMap(cil1), cil1)
    /\ isSnapshotOf(populateMap(cil2), cil2)
    /\ \A i \in entriesAt :
         out[i].path =
           recordOf(IF out[i].side = "<" THEN cil1 ELSE cil2, outKey(out[i])).path

\* The baseline has one key twice with two call paths; the lost entry has
\* the call path of the second record.
C20_Witness ==
  /\ pc = "diffdone"
  /\ Len(cil1) = 2
  /\ mapKey(cil1[1]) = mapKey(cil1[2])
  /\ cil1[1].path # cil1[2].path
  /\ cil2 = <<>>
  /\ Len(out) = 1
  /\ out[1].side = "<"
  /\ out[1].path = cil1[2].path

(***************************************************************************)
(* C17.  For a revision other than "." and every CAPSLOCKTOOLSTMPDIR, the  *)
(* analyzer runs only after, in the same call, git clone into the new      *)
(* temporary directory and then git reset --hard to the revision both      *)
(* succeeded, and it runs in the temporary directory joined with the path  *)
(* of the start directory relative to the root of the repository.          *)
(***************************************************************************)
\* The path of the start directory relative to the root of the repository.
callerPrefix == SubSeq(startDir, Len(RepoRoot) + 1, Len(startDir))

C17_AnalyzerInClonedRevision ==
  tool = "gitdiff" =>
    \A i \in DOMAIN ops :
      (ops[i].op = "capslock" /\ args[ops[i].call] # ".") =>
        \E m, c, r \in 1..(i - 1) :
          /\ m < c /\ c < r
          /\ ops[m].call = ops[i].call
          /\ ops[c].call = ops[i].call
          /\ ops[r].call = ops[i].call
          /\ ops[m].op = "mkdirtemp" /\ opOk(ops[m])
          /\ \E n \in DOMAIN tempNames :
               ops[m].arg = absPath(startDir, tempBase(tmpEnv)) \o <<tempNames[n]>>
          /\ ops[c].op = "git clone" /\ opOk(ops[c])
          /\ absPath(ops[c].dir, ops[c].arg[2]) = ops[m].arg
          /\ ops[r].op = "git reset --hard" /\ opOk(ops[r])
          /\ ops[r].arg = args[ops[i].call]
          /\ ops[r].dir = ops[m].arg
          /\ ops[i].dir = ops[m].arg \o callerPrefix

\* With the override set and the tool started in a subdirectory, the
\* analyzer of the first call runs in that subdirectory of the clone.
C17_Witness ==
  /\ tool = "gitdiff"
  /\ tmpEnv = <<"custom">>
  /\ startDir = <<"repo", "sub">>
  /\ \E i \in DOMAIN ops :
       /\ ops[i].op = "capslock"
       /\ ops[i].call = 1
       /\ args[1] # "."
       /\ ops[i].dir = <<"custom", "t1", "sub">>

(***************************************************************************)
(* C18.  compare does its steps in this order, each after the success of   *)
(* the one before: workspace 1 and go get at version1; capslock.json of    *)
(* workspace 1 created, written by the analyzer and closed; workspace 2,   *)
(* another directory, and go get at version2; the comparison, run in       *)
(* workspace 2 with the absolute path of the file in workspace 1.  The     *)
(* comparison never starts before the file is written and closed.          *)
(***************************************************************************)
compareSteps ==
  <<"mkdirtemp", "chdir", "go mod init", "go get",
    "getwd", "create", "capslock -output=json", "close",
    "mkdirtemp", "chdir", "go mod init", "go get",
    "capslock -output=compare">>

\* The n-th operation has been performed.
reached(n) == Len(ops) >= n

C18_CompareStepOrder ==
  tool = "compare" =>
    /\ Len(ops) <= Len(compareSteps)
    /\ \A i \in DOMAIN ops :
         /\ ops[i].op = compareSteps[i]
         /\ i < Len(ops) => opOk(ops[i])
    /\ reached(2) => absPath(ops[2].dir, ops[2].arg) = ops[1].arg
    /\ reached(4) => ops[4].dir = ops[1].arg /\ ops[4].arg = <<args[1], args[2]>>
    /\ reached(6) => ops[6].dir = ops[1].arg /\ ops[6].arg = <<"capslock.json">>
    /\ reached(7) => /\ ops[7].dir = ops[1].arg
                     /\ ops[7].arg = ops[1].arg \o <<"capslock.json">>
    /\ reached(8) => ops[8].arg = ops[7].arg
    /\ (reached(9) /\ opOk(ops[9])) => ops[9].arg # ops[1].arg
    /\ reached(10) => absPath(ops[10].dir, ops[10].arg) = ops[9].arg
    /\ reached(12) => ops[12].dir = ops[9].arg /\ ops[12].arg = <<args[1], args[3]>>
    /\ reached(13) => /\ ops[13].dir = ops[9].arg
                      /\ ops[13].dir # ops[1].arg
                      /\ ops[13].arg = ops[1].arg \o <<"capslock.json">>
                      /\ ~isRelative(ops[13].arg)
                      /\ opOk(ops[7]) /\ opOk(ops[8])
    /\ (pc = "C_compare" \/ ranComparison) => fileState = "closed"
    /\ ranComparison <=> reached(13)
    /\ fileState = "closed" <=> (reached(8) /\ opOk(ops[8]))

\* The comparison ran in a second workspace made inside the first one.
C18_Witness ==
  /\ tool = "compare"
  /\ tmpEnv = <<".">>
  /\ ranComparison
  /\ Len(ops) = 13
  /\ ops[1].arg = startDir \o <<"t1">>
  /\ ops[13].dir = startDir \o <<"t1", "t2">>
  /\ ops[13].arg = startDir \o <<"t1", "capslock.json">>
  /\ fileState = "closed"

====
